---- MODULE Spec2Model ----
(***************************************************************************)
(* Ledger and settlement engine of betsandpedestres.                       *)
(*                                                                         *)
(* The committed database (accounts, transactions with their ledger        *)
(* entries, wagers, resolution votes, bets) is the shared state.  Every    *)
(* handler runs as one PostgreSQL transaction at the default isolation     *)
(* level (READ COMMITTED): each statement reads the rows committed when it *)
(* starts plus the rows its own transaction wrote, and the deferred        *)
(* constraint triggers run at COMMIT, before the writes become visible.    *)
(* A unit of work is a process slot whose pc is the next statement.        *)
(***************************************************************************)
EXTENDS Integers, Sequences, FiniteSets, TLC

VARIABLES
  houseExists,    \* users row 'house' (and its default wallet) is committed
  escrow,         \* escrow[b]: accounts row with bet_id = b is committed
  betStatus,      \* bets.status
  betResolution,  \* bets.resolution_option_id ("null" when unset)
  betResolvedAt,  \* bets.resolved_at (0 when null)
  deadline,       \* bets.deadline (0 when null)
  ledger,         \* committed transactions rows, each with its ledger_entries
  wagers,         \* committed wagers rows
  votes,          \* committed bet_resolution_votes rows
  proc,           \* the units of work in flight
  clock,          \* wall clock; now() of a transaction is its start time
  quorum,         \* BetResolveHandler.Quorum, fixed by the configuration
  users,          \* committed users rows other than the house, each with its wallet
  amountShift,    \* every amount a is a * 2^amountShift PiedPieces (0 or 32)
  buckets,        \* RateLimiter.buckets: key -> rateEntry [count, expires]
  calls,          \* goroutines inside RateLimiter.Allow: position, key and now
  unswept         \* what buckets would hold had no expired bucket been deleted

vars == <<houseExists, escrow, betStatus, betResolution, betResolvedAt,
          deadline, ledger, wagers, votes, proc, clock, quorum, users,
          amountShift,
          buckets, calls, unswept>>

----------------------------------------------------------------------------
(* Bounds of the model *)

MaxOps == 3          \* units of work begun in one behaviour
MaxAmount == 1       \* largest stake / gift / transfer amount drawn
BetDeadline == 3     \* the deadline of a bet that has one

Procs == {1, 2}      \* units of work that may be in flight together
Users == {"a", "b"}  \* registered non-house users; both hold the moderator role
Moderators == Users
Bets == {"b1"}
Options == {"X", "Y"}
Keys == {"k1", "k2"}
Quorums == {1, 2}
Registrations == {{}, Users}   \* the users registered when the model starts
ForeignOption == "Z"           \* an option of a bet other than the ones modelled
House == "house"
Amounts == 1..MaxAmount

NULL == <<>>

----------------------------------------------------------------------------
(* Accounts and ledger entries *)

Wallet(u) == [kind |-> "wallet", owner |-> u]
EscrowAcct(b) == [kind |-> "escrow", owner |-> b]

\* A bigint / int64 value is hi * 2^63 + lo with lo small; hi is 0 for every
\* amount but the ones near the ends of the 64-bit range.
Num(hi, lo) == [hi |-> hi, lo |-> lo]
MaxInt64 == Num(1, -1)

\* Two's-complement wrap of Go's int64 arithmetic.
Wrap64(v) ==
  IF v.hi % 2 = 0 THEN Num(0, v.lo)
  ELSE IF v.lo < 0 THEN Num(1, v.lo) ELSE Num(-1, v.lo)

Int64Mul(v, n) == Wrap64(Num(v.hi * n, v.lo * n))
Int64Neg(v) == Wrap64(Num(-v.hi, -v.lo))
Int64Positive(v) == v.hi > 0 \/ (v.hi = 0 /\ v.lo > 0)

Entry(acct, v) == [acct |-> acct, delta |-> v.lo, hi |-> v.hi]
E(acct, d) == Entry(acct, Num(0, d))

Range(s) == {s[i] : i \in DOMAIN s}

RECURSIVE SeqSumDelta(_)
SeqSumDelta(es) ==
  IF es = <<>> THEN 0 ELSE Head(es).delta + SeqSumDelta(Tail(es))

RECURSIVE SeqSumHi(_)
SeqSumHi(es) ==
  IF es = <<>> THEN 0 ELSE Head(es).hi + SeqSumHi(Tail(es))

OnAcct(es, a) == SelectSeq(es, LAMBDA e : e.acct = a)

RECURSIVE AcctSumDelta(_, _)
AcctSumDelta(T, a) ==
  IF T = {} THEN 0
  ELSE LET t == CHOOSE x \in T : TRUE
       IN SeqSumDelta(OnAcct(t.entries, a)) + AcctSumDelta(T \ {t}, a)

RECURSIVE AcctSumHi(_, _)
AcctSumHi(T, a) ==
  IF T = {} THEN 0
  ELSE LET t == CHOOSE x \in T : TRUE
       IN SeqSumHi(OnAcct(t.entries, a)) + AcctSumHi(T \ {t}, a)

----------------------------------------------------------------------------
(* Units of work *)

IdleProc ==
  [pc |-> "idle", kind |-> "none", user |-> "none", to |-> "none",
   bet |-> "none", option |-> "none", amount |-> 0, hi |-> 0, key |-> "none",
   now |-> 0, winOpt |-> "none", escrowTotal |-> 0, winTotal |-> 0,
   wEscrow |-> FALSE, wHouse |-> FALSE, wWager |-> FALSE, wVote |-> FALSE,
   wClose |-> FALSE, lock |-> FALSE, txs |-> <<>>, retry |-> FALSE,
   reply |-> "none"]

\* A unit of work that has failed: its transaction is rolled back and the
\* answer to the caller is decided.
Done(rec, reply) ==
  [IdleProc EXCEPT !.pc = "done", !.kind = rec.kind, !.reply = reply,
                   !.retry = rec.retry, !.bet = rec.bet,
                   !.option = IF rec.kind = "vote" THEN rec.option ELSE "none"]

InFlight(p) == proc[p].pc \notin {"idle", "done"}
Others(p) == {q \in Procs : q # p /\ InFlight(q)}
Free(p) == proc[p].pc = "idle"

\* The slot a new unit of work takes.
FreeSlot == CHOOSE p \in Procs : Free(p) /\ \A q \in Procs : Free(q) => p <= q

CanBegin == clock < MaxOps /\ \E p \in Procs : Free(p)

Start(kind, rec) ==
  /\ CanBegin
  /\ clock' = clock + 1
  /\ proc' = [proc EXCEPT ![FreeSlot] =
                IF rec.pc = "done" THEN Done([rec EXCEPT !.kind = kind], rec.reply)
                ELSE [rec EXCEPT !.kind = kind, !.now = clock + 1]]
  /\ UNCHANGED <<houseExists, escrow, betStatus, betResolution, betResolvedAt,
                 deadline, ledger, wagers, votes, quorum, users, amountShift,
          buckets, calls, unswept>>

\* Rows a statement of p reads: committed rows plus p's own writes.
OwnTxs(p) == Range(proc[p].txs)
VisibleTxs(p) == ledger \cup OwnTxs(p)

WagerRow(p) ==
  [id |-> proc[p].now, bet |-> proc[p].bet, user |-> proc[p].user,
   option |-> proc[p].option, amount |-> proc[p].amount, key |-> proc[p].key]

VisibleWagers(p) == wagers \cup (IF proc[p].wWager THEN {WagerRow(p)} ELSE {})

\* A plain insert, as if the table had no key on (bet_id, user_id).
insertResolutionVote(V, row) == V \cup {row}

\* insert into bet_resolution_votes ... on conflict (bet_id, user_id) do
\* update set option_id = excluded.option_id
upsertResolutionVote(V, row) ==
  {v \in V : ~(v.bet = row.bet /\ v.user = row.user)} \cup {row}

VoteRow(p) == [bet |-> proc[p].bet, user |-> proc[p].user, option |-> proc[p].option]

VotesOn(V, b) == {v \in V : v.bet = b}

VisibleVotes(p, b) ==
  VotesOn(IF proc[p].wVote THEN upsertResolutionVote(votes, VoteRow(p)) ELSE votes, b)

\* View user_balances: sum of the deltas on the accounts of user u.
user_balances(T, u) == AcctSumDelta(T, Wallet(u))

\* The rollback of a unit of work: none of its writes is kept.
Rollback(p) ==
  /\ proc' = [proc EXCEPT ![p] = IdleProc]
  /\ UNCHANGED <<houseExists, escrow, betStatus, betResolution, betResolvedAt,
                 deadline, ledger, wagers, votes, clock, quorum, users,
                 amountShift,
          buckets, calls, unswept>>

\* An error return that leaves behind the escrow account inserted on the way.
FailKeepingEscrow(p, reply) ==
  /\ proc' = [proc EXCEPT ![p] = Done(proc[p], reply)]
  /\ escrow' = [b \in Bets |-> escrow[b] \/ (proc[p].wEscrow /\ proc[p].bet = b)]
  /\ UNCHANGED <<houseExists, betStatus, betResolution, betResolvedAt,
                 deadline, ledger, wagers, votes, clock, quorum, users,
                 amountShift,
          buckets, calls, unswept>>

\* An error return: the deferred tx.Rollback undoes the unit of work.
Fail(p, reply) ==
  /\ proc' = [proc EXCEPT ![p] = Done(proc[p], reply)]
  /\ UNCHANGED <<houseExists, escrow, betStatus, betResolution, betResolvedAt,
                 deadline, ledger, wagers, votes, clock, quorum, users,
                 amountShift,
          buckets, calls, unswept>>

\* The error answer is written and the handler returns.
Respond(p) ==
  /\ proc[p].pc = "done"
  /\ Rollback(p)

Step(p, rec) ==
  /\ proc' = [proc EXCEPT ![p] = rec]
  /\ UNCHANGED <<houseExists, escrow, betStatus, betResolution, betResolvedAt,
                 deadline, ledger, wagers, votes, clock, quorum, users,
                 amountShift,
          buckets, calls, unswept>>

\* Row locks.  SELECT ... FOR UPDATE on a wallet conflicts with the FOR KEY
\* SHARE lock the foreign key of ledger_entries.account_id takes on insert.
HoldsForUpdate(q, a) == proc[q].lock /\ a = Wallet(proc[q].user)
HoldsKeyShare(q, a) == \E t \in OwnTxs(q) : \E e \in Range(t.entries) : e.acct = a
CanKeyShare(p, A) == \A q \in Others(p) : \A a \in A : ~HoldsForUpdate(q, a)
CanForUpdate(p, a) ==
  \A q \in Others(p) : ~HoldsForUpdate(q, a) /\ ~HoldsKeyShare(q, a)

NewTx(p, reason, bet, note, entries) ==
  [id |-> proc[p].now, reason |-> reason, bet |-> bet, note |-> note,
   created_at |-> proc[p].now, entries |-> entries,
   prev_hash |-> NULL, hash |-> NULL]

\* Check constraint of ledger_entries: delta <> 0.
DeltaNonZero(e) == ~(e.delta = 0 /\ e.hi = 0)

----------------------------------------------------------------------------
(* Deferred constraint triggers, fired at COMMIT *)

\* The check done in wrapping 64-bit arithmetic instead of numeric.
enforce_balanced_tx_wrapping(t) ==
  SeqSumDelta(t.entries) = 0 /\ SeqSumHi(t.entries) % 2 = 0

\* trg_tx_balanced: the entries of the transaction sum to zero (sum() of
\* bigint is numeric, so the sum itself does not wrap).
enforce_balanced_tx(t) ==
  SeqSumDelta(t.entries) = 0 /\ SeqSumHi(t.entries) = 0

\* trg_tx_nonneg_user_wallets: no user wallet touched by the transaction,
\* the house's excepted, has a negative sum over all its visible entries.
enforce_nonnegative_user_wallets(p, t) ==
  LET affected == {e.acct : e \in {x \in Range(t.entries) : x.acct.kind = "wallet"}}
      negative(a) ==
        LET h == AcctSumHi(VisibleTxs(p), a)
            d == AcctSumDelta(VisibleTxs(p), a)
        IN h < 0 \/ (h = 0 /\ d < 0)
  IN \A a \in affected : a.owner # House => ~negative(a)

\* The guard switched off.
forbid_mutations_disabled(op, table, flag) == TRUE

\* trg_tx_forbid_mutation / trg_entries_forbid_mutation: TRUE when the row
\* operation goes through.  Only an UPDATE of transactions under the flag
\* bets.allow_tx_hash_update, which the hash trigger sets, is let through.
forbid_mutations(op, table, flag) ==
  op \in {"UPDATE", "DELETE"} => (table = "transactions" /\ op = "UPDATE" /\ flag = "1")

Before(t1, t2) ==
  t1.created_at < t2.created_at \/ (t1.created_at = t2.created_at /\ t1.id < t2.id)

\* The hash of the latest visible transaction before t, NULL if there is none.
PrevHash(T, t) ==
  LET older == {x \in T : Before(x, t)}
  IN IF older = {} THEN NULL
     ELSE (CHOOSE x \in older : \A y \in older : y = x \/ Before(y, x)).hash

\* string_agg without its order by: the entries in the order of insertion.
EntriesAsInserted(es) == es

\* string_agg(account_id:delta order by account_id, delta): the entries as a
\* multiset, whatever the order they were inserted in.
CanonicalEntries(es) ==
  [x \in Range(es) |-> Cardinality({i \in DOMAIN es : es[i] = x})]

Payload(t) == <<t.reason, t.bet, t.created_at, CanonicalEntries(t.entries)>>

\* digest(coalesce(prev,'') || payload)
Digest(prev, payload) == <<prev, payload>>

\* trg_tx_hash: the one permitted update of a transactions row.
tx_compute_hash_deferred(p, t) ==
  LET prev == PrevHash(VisibleTxs(p) \ {t}, t)
  IN [t EXCEPT !.prev_hash = prev, !.hash = Digest(prev, Payload(t))]

RECURSIVE SealAll(_, _)
SealAll(p, ts) ==
  IF ts = <<>> THEN <<>>
  ELSE <<tx_compute_hash_deferred(p, Head(ts))>> \o SealAll(p, Tail(ts))

\* COMMIT, first half: the deferred triggers run on what the transaction sees.
FireDeferredTriggers(p) ==
  /\ proc[p].pc = "trig"
  /\ IF \A t \in OwnTxs(p) :
          /\ enforce_balanced_tx(t)
          /\ enforce_nonnegative_user_wallets(p, t)
          /\ forbid_mutations("UPDATE", "transactions", "1")
     THEN Step(p, [proc[p] EXCEPT !.pc = "commit", !.txs = SealAll(p, proc[p].txs)])
     ELSE Fail(p, "commit error")

\* COMMIT, second half: the writes become visible to the other transactions.
Commit(p) ==
  /\ proc[p].pc = "commit"
  /\ houseExists' = (houseExists \/ proc[p].wHouse)
  /\ escrow' = [b \in Bets |-> escrow[b] \/ (proc[p].wEscrow /\ proc[p].bet = b)]
  /\ betStatus' = [b \in Bets |->
       IF proc[p].wClose /\ proc[p].bet = b THEN "closed" ELSE betStatus[b]]
  /\ betResolution' = [b \in Bets |->
       IF proc[p].wClose /\ proc[p].bet = b THEN proc[p].winOpt ELSE betResolution[b]]
  /\ betResolvedAt' = [b \in Bets |->
       IF proc[p].wClose /\ proc[p].bet = b THEN proc[p].now ELSE betResolvedAt[b]]
  /\ ledger' = ledger \cup OwnTxs(p)
  /\ wagers' = wagers \cup (IF proc[p].wWager THEN {WagerRow(p)} ELSE {})
  /\ votes' = IF proc[p].wVote THEN upsertResolutionVote(votes, VoteRow(p)) ELSE votes
  /\ proc' = [proc EXCEPT ![p] = IdleProc]
  /\ UNCHANGED <<deadline, clock, quorum, users, amountShift,
          buckets, calls, unswept>>

\* The caller's deadline expires (context.WithTimeout) or the connection is
\* lost: the transaction is rolled back wherever it stands.
Timeout(p) ==
  /\ InFlight(p)
  /\ Rollback(p)

----------------------------------------------------------------------------
(* UPDATE / DELETE statements on the ledger tables *)

\* The ledger after the statement has changed or removed the row.
Mutated(t, op, table) ==
  IF op = "DELETE" /\ table = "transactions" THEN ledger \ {t}
  ELSE (ledger \ {t}) \cup
       {IF table = "transactions" THEN [t EXCEPT !.note = "edited"]
        ELSE IF op = "DELETE" THEN [t EXCEPT !.entries = Tail(@)]
        ELSE [t EXCEPT !.entries[1].delta = @ + 1]}

\* Any statement other than the hash trigger's: the flag is not set, the
\* guard raises 'Append-only table' and the statement has no effect.
LedgerMutation(t, op, table) ==
  IF forbid_mutations(op, table, "0")
  THEN /\ CanBegin
       /\ ledger' = Mutated(t, op, table)
       /\ clock' = clock + 1
       /\ UNCHANGED <<houseExists, escrow, betStatus, betResolution, betResolvedAt,
                      deadline, wagers, votes, proc, quorum, users, amountShift,
          buckets, calls, unswept>>
  ELSE Start("mutate", [IdleProc EXCEPT !.pc = "done", !.reply = "Append-only table"])

----------------------------------------------------------------------------
(* BetWagerCreateHandler.ServeHTTP: place_wager *)

\* 1) bet open, deadline null or after now(), no resolution vote yet
CanWager(b, now) ==
  /\ betStatus[b] = "open"
  /\ (deadline[b] = 0 \/ deadline[b] > now)
  /\ VotesOn(votes, b) = {}

\* BEGIN and the validation query: no row when the option is not one of the
\* bet's, can_wager false when the market is frozen.
WagerValidate(u, b, o, amt, k) ==
  /\ u \in users
  /\ Start("wager",
        LET r == [IdleProc EXCEPT !.user = u, !.bet = b, !.option = o, !.amount = amt,
                                  !.key = k,
                                  !.retry = \E w \in wagers :
                                     /\ w.user = u /\ w.key = k /\ w.bet = b
                                     /\ w.option = o /\ w.amount = amt]
        IN IF o \notin Options
           THEN [r EXCEPT !.pc = "done", !.reply = "invalid bet or option"]
           ELSE IF ~CanWager(b, clock + 1)
           THEN [r EXCEPT !.pc = "done",
                          !.reply = "bet is closed, past deadline, or awaiting resolution"]
           ELSE [r EXCEPT !.pc = "w_balance"])

\* 2) amount > avail is refused
WagerBalance(p) ==
  /\ proc[p].pc = "w_balance"
  /\ IF proc[p].amount > user_balances(VisibleTxs(p), proc[p].user)
     THEN Fail(p, "insufficient balance")
     ELSE Step(p, [proc[p] EXCEPT !.pc = "w_escrow"])

\* 3) ensureBetEscrowAccount: the select
WagerEscrowSelect(p) ==
  /\ proc[p].pc = "w_escrow"
  /\ Step(p, [proc[p] EXCEPT !.pc =
                IF escrow[proc[p].bet] THEN "w_ledger" ELSE "w_escrow_ins"])

\* 3) ensureBetEscrowAccount: the insert, which waits for a concurrent insert
\* of the same bet_id and fails on the unique constraint if that one commits.
WagerEscrowInsert(p) ==
  /\ proc[p].pc = "w_escrow_ins"
  /\ \A q \in Others(p) : ~(proc[q].wEscrow /\ proc[q].bet = proc[p].bet)
  /\ IF escrow[proc[p].bet]
     THEN Fail(p, "escrow error")
     ELSE Step(p, [proc[p] EXCEPT !.pc = "w_ledger", !.wEscrow = TRUE])

\* The stake taken from the house instead of the bettor.
WagerEntriesFromHouse(u, b, amt) == <<E(Wallet(House), -amt), E(EscrowAcct(b), amt)>>

\* 5) and 6) transaction header and the two entries user -> escrow
WagerEntries(u, b, amt) == <<E(Wallet(u), -amt), E(EscrowAcct(b), amt)>>

WagerTx(p) ==
  NewTx(p, "BET", proc[p].bet, "null",
        WagerEntries(proc[p].user, proc[p].bet, proc[p].amount))

\* The unique index missing.
WagerKeyNeverTaken(u, k) == FALSE

\* uq_wager_user_idemp: unique (user_id, idempotency_key)
WagerKeyTaken(u, k) == \E w \in wagers : w.user = u /\ w.key = k

\* The unique violation taken for success: the handler goes on to commit the
\* header and the entries it has inserted, without a wagers row.
WagerInsertCommittingRetry(p) ==
  /\ proc[p].pc = "w_ledger"
  /\ CanKeyShare(p, {Wallet(proc[p].user), EscrowAcct(proc[p].bet)})
  /\ \A q \in Others(p) :
       ~(proc[q].wWager /\ proc[q].user = proc[p].user /\ proc[q].key = proc[p].key)
  /\ Step(p, [proc[p] EXCEPT !.pc = "trig", !.txs = <<WagerTx(p)>>,
                             !.wWager = ~WagerKeyTaken(proc[p].user, proc[p].key)])

\* 7) the wagers row; a unique violation answers "already submitted" and the
\* handler returns without committing.  The insert waits for a transaction
\* in flight that has inserted the same (user_id, idempotency_key).
WagerInsert(p) ==
  /\ proc[p].pc = "w_ledger"
  /\ CanKeyShare(p, {Wallet(proc[p].user), EscrowAcct(proc[p].bet)})
  /\ \A q \in Others(p) :
       ~(proc[q].wWager /\ proc[q].user = proc[p].user /\ proc[q].key = proc[p].key)
  /\ IF WagerKeyTaken(proc[p].user, proc[p].key)
     THEN Fail(p, "already_submitted")
     ELSE Step(p, [proc[p] EXCEPT !.pc = "trig", !.wWager = TRUE, !.txs = <<WagerTx(p)>>])

----------------------------------------------------------------------------
(* bap gift user / bap gift all *)

\* giftToSingleUser: house -> target, two entries
GiftEntries(u, amt) == <<E(Wallet(House), -amt), E(Wallet(u), amt)>>

\* ensureHouseAccount: the insert of the house user waits for a concurrent one.
HouseFree(p) == \A q \in Others(p) : ~proc[q].wHouse

\* BEGIN and ensureHouseAccount's select.  With the house committed the rest
\* of the gift follows at once; without it the house is still to be inserted.
GiftToSingleUser(u, amt) ==
  /\ CanBegin
  /\ houseExists => CanKeyShare(FreeSlot, {Wallet(u)})
  /\ Start("gift",
        LET r == [IdleProc EXCEPT !.user = u, !.amount = amt]
        IN IF ~houseExists THEN [r EXCEPT !.pc = "g_house"]
           ELSE IF u \notin users
           THEN [r EXCEPT !.pc = "done", !.reply = "user not found"]
           ELSE [r EXCEPT !.pc = "trig",
                   !.txs = <<[id |-> clock + 1, reason |-> "GIFT", bet |-> "null",
                              note |-> "gift", created_at |-> clock + 1,
                              entries |-> GiftEntries(u, amt),
                              prev_hash |-> NULL, hash |-> NULL]>>])

\* giftToAllUsers: one transaction, house debited by amount * len(recips) in
\* int64 arithmetic, every non-house user credited by amount.
RECURSIVE Credits(_, _)
Credits(R, v) ==
  IF R = {} THEN <<>>
  ELSE LET u == CHOOSE x \in R : TRUE
       IN <<Entry(Wallet(u), v)>> \o Credits(R \ {u}, v)

\* The house listed among the recipients.
AirdropEntriesHouseIncluded(R, v) ==
  <<Entry(Wallet(House), Int64Neg(Int64Mul(v, Cardinality(R) + 1)))>>
    \o Credits(R \cup {House}, v)

AirdropEntries(R, v) ==
  LET total == Int64Mul(v, Cardinality(R))
  IN <<Entry(Wallet(House), Int64Neg(total))>> \o Credits(R, v)

AirdropAmounts == {Num(0, 1), MaxInt64}

GiftToAllUsers(v) ==
  /\ CanBegin
  /\ houseExists => CanKeyShare(FreeSlot, {Wallet(u) : u \in users})
  /\ Int64Positive(v)
  /\ users # {} => \A e \in Range(AirdropEntries(users, v)) : DeltaNonZero(e)
  /\ Start("airdrop",
        LET r == [IdleProc EXCEPT !.amount = v.lo, !.hi = v.hi]
        IN IF ~houseExists THEN [r EXCEPT !.pc = "g_house"]
           ELSE IF users = {}
           THEN [r EXCEPT !.pc = "done", !.reply = "no recipients"]
           ELSE [r EXCEPT !.pc = "trig",
                   !.txs = <<[id |-> clock + 1, reason |-> "GIFT", bet |-> "null",
                              note |-> "airdrop", created_at |-> clock + 1,
                              entries |-> AirdropEntries(users, v),
                              prev_hash |-> NULL, hash |-> NULL]>>])

\* ensureHouseAccount's insert of the house user, then the recipients, the
\* transaction header and the entries.  The insert waits for a house
\* inserted by a transaction in flight and fails on the unique username once
\* that one has committed.
GiftHouseInsert(p) ==
  /\ proc[p].pc = "g_house"
  /\ HouseFree(p)
  /\ IF houseExists THEN Fail(p, "house account")
     ELSE IF proc[p].kind = "gift" /\ proc[p].user \notin users
     THEN Fail(p, "user not found")
     ELSE IF proc[p].kind = "airdrop" /\ users = {}
     THEN Fail(p, "no recipients")
     ELSE LET es == IF proc[p].kind = "gift"
                    THEN GiftEntries(proc[p].user, proc[p].amount)
                    ELSE AirdropEntries(users, Num(proc[p].hi, proc[p].amount))
              note == IF proc[p].kind = "gift" THEN "gift" ELSE "airdrop"
          IN /\ CanKeyShare(p, {e.acct : e \in Range(es)})
             /\ Step(p, [proc[p] EXCEPT !.pc = "trig", !.wHouse = TRUE,
                   !.txs = <<NewTx(p, "GIFT", "null", note, es)>>])

----------------------------------------------------------------------------
(* BetResolveHandler.processResolution: cast_vote *)

\* The check without its deadline half.
BetVotableBeforeDeadline(b, now) == betStatus[b] = "open"

\* ensureBetOpen: status open and (deadline null or already passed)
BetVotable(b, now) ==
  betStatus[b] = "open" /\ (deadline[b] = 0 \/ deadline[b] <= now)

\* BEGIN and ensureBetOpen: errInvalidBetOption when the join of the bet with
\* the option has no row, errBetNotOpen when the bet is not votable.
VoteEnsureBetOpen(m, b, o) ==
  /\ m \in users
  /\ Start("vote",
        LET r == [IdleProc EXCEPT !.user = m, !.bet = b, !.option = o]
        IN IF o \notin Options
           THEN [r EXCEPT !.pc = "done", !.reply = "invalid bet or option"]
           ELSE IF ~BetVotable(b, clock + 1)
           THEN [r EXCEPT !.pc = "done", !.reply = "bet not open"]
           ELSE [r EXCEPT !.pc = "v_upsert"])

\* upsertResolutionVote: insert ... on conflict (bet_id, user_id) do update;
\* waits while another transaction holds an uncommitted write of the same row.
VoteUpsert(p) ==
  /\ proc[p].pc = "v_upsert"
  /\ \A q \in Others(p) :
       ~(proc[q].wVote /\ proc[q].bet = proc[p].bet /\ proc[q].user = proc[p].user)
  /\ Step(p, [proc[p] EXCEPT !.pc = "v_consensus", !.wVote = TRUE])

VotedOptions(V) == {v.option : v \in V}

\* consensusStatus: total votes, and whether they name exactly one option
consensusStatus(V) ==
  [votes |-> Cardinality(V), agreed |-> Cardinality(VotedOptions(V)) = 1]

VoteConsensus(p) ==
  /\ proc[p].pc = "v_consensus"
  /\ LET c == consensusStatus(VisibleVotes(p, proc[p].bet))
     IN Step(p, [proc[p] EXCEPT !.pc =
                   IF c.votes >= quorum /\ c.agreed THEN "v_winopt" ELSE "trig"])

\* consensusWinningOption: select option_id ... limit 1, any visible vote
VoteWinningOption(p) ==
  /\ proc[p].pc = "v_winopt"
  /\ \E o \in VotedOptions(VisibleVotes(p, proc[p].bet)) :
       Step(p, [proc[p] EXCEPT !.pc = "f_update", !.winOpt = o])

----------------------------------------------------------------------------
(* finalizeBetPayout *)

\* The payout without the update of the bet.
FinalizeWithoutClosing(p) ==
  /\ proc[p].pc = "f_update"
  /\ IF escrow[proc[p].bet]
     THEN Step(p, [proc[p] EXCEPT !.pc = "f_total"])
     ELSE Fail(p, "db error")

\* update bets set status = 'closed', resolution_option_id, resolved_at;
\* waits while another transaction holds an uncommitted update of the row.
\* Then select id from accounts where bet_id = $1: no row is an error.
FinalizeUpdateBet(p) ==
  /\ proc[p].pc = "f_update"
  /\ \A q \in Others(p) : ~(proc[q].wClose /\ proc[q].bet = proc[p].bet)
  /\ IF escrow[proc[p].bet]
     THEN Step(p, [proc[p] EXCEPT !.pc = "f_total", !.wClose = TRUE])
     ELSE Fail(p, "db error")

RECURSIVE SumAmounts(_)
SumAmounts(W) ==
  IF W = {} THEN 0
  ELSE LET w == CHOOSE x \in W : TRUE IN w.amount + SumAmounts(W \ {w})

WagersOn(W, b) == {w \in W : w.bet = b}
WagersOnOption(W, b, o) == {w \in W : w.bet = b /\ w.option = o}

\* escrowTotal: coalesce(sum(amount),0) over the wagers of the bet
FinalizeEscrowTotal(p) ==
  /\ proc[p].pc = "f_total"
  /\ Step(p, [proc[p] EXCEPT !.pc = "f_win",
        !.escrowTotal = SumAmounts(WagersOn(VisibleWagers(p), proc[p].bet))])

\* winTotal: the same sum over the wagers on the winning option
FinalizeWinTotal(p) ==
  /\ proc[p].pc = "f_win"
  /\ LET wt == SumAmounts(WagersOnOption(VisibleWagers(p), proc[p].bet, proc[p].winOpt))
     IN Step(p, [proc[p] EXCEPT !.pc = IF wt = 0 THEN "f_house" ELSE "f_winners",
                                !.winTotal = wt])

NoWinnerEntries(b, escrowTotal) ==
  <<E(EscrowAcct(b), -escrowTotal), E(Wallet(House), escrowTotal)>>

\* winTotal == 0: the whole escrow goes to the house in one transaction
FinalizeNoWinners(p) ==
  /\ proc[p].pc = "f_house"
  /\ LET es == NoWinnerEntries(proc[p].bet, proc[p].escrowTotal)
     IN IF houseExists /\ \A e \in Range(es) : DeltaNonZero(e)
        THEN Step(p, [proc[p] EXCEPT !.pc = "trig",
               !.txs = <<NewTx(p, "BET", proc[p].bet, "no winners - to house", es)>>])
        ELSE Fail(p, "db error")

\* The winners query: user_id, sum(amount) group by user_id.
Winners(W, b, o) == {w.user : w \in WagersOnOption(W, b, o)}
Stake(W, b, o, u) == SumAmounts({w \in WagersOnOption(W, b, o) : w.user = u})

\* group by has no order by: the rows come in any order.
Orders(S) ==
  {s \in [1..Cardinality(S) -> S] : \A i, j \in DOMAIN s : i # j => s[i] # s[j]}

\* (escrowTotal * w.Amount) / winTotal in Go's int64, the operands and the
\* result counted in units of 2^amountShift: with 32-bit units the product is
\* a multiple of 2^64 and wraps to exactly 0.
ProportionalShare(escrowTotal, amount, winTotal) ==
  IF 2 * amountShift >= 64 THEN 0 \div winTotal
  ELSE (escrowTotal * amount) \div winTotal

\* The payout loop: proportional share, the last winner takes the remainder,
\* a share that is not positive is skipped.
RECURSIVE PayoutEntries(_, _, _, _, _, _)
PayoutEntries(order, stake, i, distributed, escrowTotal, b) ==
  IF i > Len(order) THEN <<>>
  ELSE LET raw == ProportionalShare(escrowTotal, stake[order[i]], stake["total"])
           last == i = Len(order)
           share == IF last THEN escrowTotal - distributed ELSE raw
           pair == IF share > 0
                   THEN <<E(EscrowAcct(b), -share), E(Wallet(order[i]), share)>>
                   ELSE <<>>
       IN pair \o PayoutEntries(order, stake, i + 1,
                                IF last THEN distributed ELSE distributed + raw,
                                escrowTotal, b)

FinalizeWinners(p) ==
  /\ proc[p].pc = "f_winners"
  /\ LET b == proc[p].bet
         W == VisibleWagers(p)
         ws == Winners(W, b, proc[p].winOpt)
         stake == [x \in ws \cup {"total"} |->
                     IF x = "total" THEN proc[p].winTotal
                     ELSE Stake(W, b, proc[p].winOpt, x)]
     IN \E order \in Orders(ws) :
          LET es == PayoutEntries(order, stake, 1, 0, proc[p].escrowTotal, b)
          IN /\ CanKeyShare(p, {e.acct : e \in Range(es)})
             /\ Step(p, [proc[p] EXCEPT !.pc = "trig",
                   !.txs = <<NewTx(p, "BET", b, "payout", es)>>])

----------------------------------------------------------------------------
(* UserProfileHandler.handleTransfer *)

\* The sender's account read without "for update".
TransferWithoutLock(u, r, amt) ==
  /\ u \in users /\ r \in users
  /\ u # r
  /\ Start("transfer", [IdleProc EXCEPT !.pc = "t_balance", !.user = u, !.to = r,
                                        !.amount = amt])

\* BEGIN and select ... from accounts where user_id = $1 and is_default
\* for update; a transfer to oneself is refused before the transaction.
TransferLockSender(u, r, amt) ==
  /\ u \in users /\ r \in users
  /\ u # r
  /\ CanBegin
  /\ CanForUpdate(FreeSlot, Wallet(u))
  /\ Start("transfer", [IdleProc EXCEPT !.pc = "t_balance", !.user = u, !.to = r,
                                        !.amount = amt, !.lock = TRUE])

TransferBalance(p) ==
  /\ proc[p].pc = "t_balance"
  /\ IF proc[p].amount > user_balances(VisibleTxs(p), proc[p].user)
     THEN Fail(p, "notenough")
     ELSE Step(p, [proc[p] EXCEPT !.pc = "t_ledger"])

TransferEntries(u, r, amt) == <<E(Wallet(u), -amt), E(Wallet(r), amt)>>

TransferLedger(p) ==
  /\ proc[p].pc = "t_ledger"
  /\ CanKeyShare(p, {Wallet(proc[p].user), Wallet(proc[p].to)})
  /\ Step(p, [proc[p] EXCEPT !.pc = "trig",
        !.txs = <<NewTx(p, "TRANSFER", "null", "transfer",
                        TransferEntries(proc[p].user, proc[p].to, proc[p].amount))>>])

----------------------------------------------------------------------------

\* The first airdrop of a deployment, as GiftToAllUsers commits it.
SeedTx ==
  LET t == [id |-> 0, reason |-> "GIFT", bet |-> "null", note |-> "airdrop",
            created_at |-> 0, entries |-> AirdropEntries(Users, Num(0, MaxAmount)),
            prev_hash |-> NULL, hash |-> NULL]
  IN [t EXCEPT !.hash = Digest(NULL, Payload(t))]

----------------------------------------------------------------------------
(* The login rate limiter: middleware.RateLimiter, called by AuthHandler.Login *)

limit == 2         \* RateLimiter.limit; NewRateLimiter makes it at least 1
window == 2        \* RateLimiter.window, in ticks of the clock
SweepFactor == 1   \* buckets are swept once len(buckets) > limit * SweepFactor
                   \* (the source has 50 for SweepFactor)
MaxNow == 4        \* the last reading of the clock
ClientIPs == {"ip1", "ip2", "ip3"}
Callers == {1, 2}

\* The zero value of rateEntry: what a map lookup yields for a missing key.
\* The zero time.Time is before every reading of the clock.
ZeroEntry == [count |-> 0, expires |-> 0]

EmptyBuckets == [k \in {} |-> ZeroEntry]

IdleCall == [pc |-> "idle", key |-> "none", now |-> 0, ok |-> FALSE]

\* entry := rl.buckets[key]
Lookup(m, key) == IF key \in DOMAIN m THEN m[key] ELSE ZeroEntry

\* rl.buckets[key] = entry
Store(m, key, entry) ==
  [k \in DOMAIN m \cup {key} |-> IF k = key THEN entry ELSE m[k]]

\* time.Time.After is strict.
After(t, u) == t > u

\* The entry after the expiry test: an expired (or missing) bucket is reset
\* and its window runs from the caller's now.
Opened(m, key, now) ==
  LET entry == Lookup(m, key)
  IN IF After(now, entry.expires)
       THEN [count |-> 0, expires |-> now + window]
       ELSE entry

\* What Allow(key) returns when it finds the map m.
Allowed(m, key, now) == ~(Opened(m, key, now).count >= limit)

\* for k, v := range rl.buckets { if now.After(v.expires) { delete(...) } }
Sweep(m, now) ==
  [k \in {j \in DOMAIN m : ~After(now, m[j].expires)} |-> m[k]]

\* The map Allow(key) leaves behind; sweeps = FALSE leaves the clean-up out.
AllowBuckets(m, key, now, sweeps) ==
  LET entry == Opened(m, key, now)
  IN IF entry.count >= limit
       THEN Store(m, key, entry)
       ELSE LET stored == Store(m, key, [entry EXCEPT !.count = @ + 1])
            IN IF sweeps /\ Cardinality(DOMAIN stored) > limit * SweepFactor
                 THEN Sweep(stored, now)
                 ELSE stored

\* No login attempt has been made yet.
LimiterIdle ==
  /\ buckets = EmptyBuckets
  /\ unswept = EmptyBuckets
  /\ calls = [c \in Callers |-> IdleCall]

\* now := time.Now(), read before the mutex is taken.
AllowNow(c, key) ==
  /\ calls[c].pc = "idle"
  /\ calls' = [calls EXCEPT ![c] = [pc |-> "lock", key |-> key, now |-> clock,
                                    ok |-> FALSE]]
  /\ UNCHANGED <<houseExists, escrow, betStatus, betResolution, betResolvedAt,
                 deadline, ledger, wagers, votes, proc, clock, quorum, users,
                 amountShift, buckets, unswept>>

\* rl.mu.Lock() ... return: the body of Allow under the mutex.
AllowLocked(c) ==
  /\ calls[c].pc = "lock"
  /\ buckets' = AllowBuckets(buckets, calls[c].key, calls[c].now, TRUE)
  /\ unswept' = AllowBuckets(unswept, calls[c].key, calls[c].now, FALSE)
  /\ calls' = [calls EXCEPT ![c] =
                 [IdleCall EXCEPT !.ok = Allowed(buckets, calls[c].key, calls[c].now)]]
  /\ UNCHANGED <<houseExists, escrow, betStatus, betResolution, betResolvedAt,
                 deadline, ledger, wagers, votes, proc, clock, quorum, users,
                 amountShift>>

\* Time passes.
Tick ==
  /\ clock < MaxNow
  /\ clock' = clock + 1
  /\ UNCHANGED <<houseExists, escrow, betStatus, betResolution, betResolvedAt,
                 deadline, ledger, wagers, votes, proc, quorum, users,
                 amountShift, buckets, calls, unswept>>

\* The server after start-up, seen by the limiter alone: no bet is touched.
LimiterInit ==
  /\ users = {}
  /\ houseExists = FALSE
  /\ escrow = [b \in Bets |-> FALSE]
  /\ betStatus = [b \in Bets |-> "open"]
  /\ betResolution = [b \in Bets |-> "null"]
  /\ betResolvedAt = [b \in Bets |-> 0]
  /\ deadline = [b \in Bets |-> 0]
  /\ ledger = {}
  /\ wagers = {}
  /\ votes = {}
  /\ proc = [p \in Procs |-> IdleProc]
  /\ clock = 1
  /\ quorum = 1
  /\ amountShift = 0
  /\ LimiterIdle

LimiterNext ==
  \/ \E c \in Callers, key \in ClientIPs : AllowNow(c, key)
  \/ \E c \in Callers : AllowLocked(c)
  \/ Tick

SpecLimiter == LimiterInit /\ [][LimiterNext]_vars

\* The database after the migrations, with the users and one bet registered,
\* either before any gift or after the first airdrop.
Init ==
  /\ users \in Registrations
  /\ houseExists \in IF users = Users THEN BOOLEAN ELSE {FALSE}
  /\ escrow = [b \in Bets |-> FALSE]
  /\ betStatus = [b \in Bets |-> "open"]
  /\ betResolution = [b \in Bets |-> "null"]
  /\ betResolvedAt = [b \in Bets |-> 0]
  /\ deadline \in [Bets -> {0, BetDeadline}]
  /\ ledger = IF houseExists THEN {SeedTx} ELSE {}
  /\ wagers = {}
  /\ votes = {}
  /\ proc = [p \in Procs |-> IdleProc]
  /\ clock = 0
  /\ quorum \in Quorums
  /\ amountShift = 0
  /\ LimiterIdle

Next ==
  \/ \E u \in Users, b \in Bets, o \in Options \cup {ForeignOption}, amt \in Amounts, k \in Keys :
       WagerValidate(u, b, o, amt, k)
  \/ \E m \in Moderators, b \in Bets, o \in Options \cup {ForeignOption} :
       VoteEnsureBetOpen(m, b, o)
  \/ \E u \in Users, r \in Users, amt \in Amounts : TransferLockSender(u, r, amt)
  \/ \E u \in Users, amt \in Amounts : GiftToSingleUser(u, amt)
  \/ \E v \in AirdropAmounts : GiftToAllUsers(v)
  \/ \E t \in ledger, op \in {"UPDATE", "DELETE"}, table \in {"transactions", "ledger_entries"} :
       LedgerMutation(t, op, table)
  \/ \E p \in Procs :
       \/ WagerBalance(p)
       \/ WagerEscrowSelect(p)
       \/ WagerEscrowInsert(p)
       \/ WagerInsert(p)
       \/ VoteUpsert(p)
       \/ VoteConsensus(p)
       \/ VoteWinningOption(p)
       \/ FinalizeUpdateBet(p)
       \/ FinalizeEscrowTotal(p)
       \/ FinalizeWinTotal(p)
       \/ FinalizeNoWinners(p)
       \/ FinalizeWinners(p)
       \/ GiftHouseInsert(p)
       \/ TransferBalance(p)
       \/ TransferLedger(p)
       \/ FireDeferredTriggers(p)
       \/ Commit(p)
       \/ Respond(p)
       \/ Timeout(p)

Spec == Init /\ [][Next]_vars

----------------------------------------------------------------------------
(* The claims *)

IsStakeTx(t) == t.reason = "BET" /\ t.note = "null"
IsResolutionTx(t) == t.reason = "BET" /\ t.note \in {"payout", "no winners - to house"}
ResolutionTxs(b) == {t \in ledger : IsResolutionTx(t) /\ t.bet = b}

Balance(a) == AcctSumDelta(ledger, a)

CreditedToWallets(t) ==
  SeqSumDelta(SelectSeq(t.entries, LAMBDA e : e.acct.kind = "wallet"))

\* C1: every committed ledger transaction has entries summing to exactly zero
\* and no entry with delta 0.
C1_ZeroSum ==
  \A t \in ledger :
    /\ SeqSumDelta(t.entries) = 0
    /\ SeqSumHi(t.entries) = 0
    /\ \A e \in Range(t.entries) : e.delta # 0 \/ e.hi # 0

\* A stake, and a payout to a winner, have been committed.
C1_Witness ==
  /\ \E t \in ledger : IsStakeTx(t)
  /\ \E t \in ledger : t.note = "payout" /\ Len(t.entries) >= 2

\* C2: in every committed state the balance of every non-house user wallet
\* is >= 0, whatever the interleaving of wagers and transfers.
C2_NonNegativeWallets ==
  \A u \in Users : Balance(Wallet(u)) >= 0

\* C3: per (user, idempotency_key) there is at most one wagers row, every
\* wagers row has exactly one user-to-escrow BET transaction of the same
\* unit of work, and no such transaction is committed without its row.
C3_IdempotentWager ==
  /\ \A w1 \in wagers : \A w2 \in wagers :
       (w1.user = w2.user /\ w1.key = w2.key) => w1 = w2
  /\ \A w \in wagers :
       \E t \in ledger :
         /\ IsStakeTx(t) /\ t.id = w.id
         /\ t.entries = <<E(Wallet(w.user), -w.amount), E(EscrowAcct(w.bet), w.amount)>>
  /\ \A t \in ledger : IsStakeTx(t) => \E w \in wagers : w.id = t.id

\* A submission has inserted its rows under a key that is already committed.
C3_Witness ==
  \E p \in Procs :
    /\ proc[p].pc = "w_ledger"
    /\ \E w \in wagers : w.user = proc[p].user /\ w.key = proc[p].key

\* C4: ordered by (created_at, id), each committed transaction's prev_hash is
\* the hash of the transaction immediately before it, the first has none.
C4_HashChain ==
  \A t \in ledger : t.prev_hash = PrevHash(ledger \ {t}, t)

\* C5: the amounts a committed payout credits to the winners' wallets sum
\* to escrow_total, the sum of all wagers on the bet.
C5_PayoutConservation ==
  [][\A p \in Procs :
       (Commit(p) /\ proc[p].wClose)
       => \A t \in OwnTxs(p) :
            t.note = "payout"
            => CreditedToWallets(t) = SumAmounts(WagersOn(wagers', proc[p].bet))]_vars

\* C6: at most one payout / no-winner transaction is committed per bet.
C6_ResolvedOnce ==
  \A b \in Bets : Cardinality(ResolutionTxs(b)) <= 1

\* C7: a bet is closed if and only if the ledger transaction of its
\* resolution (payout, or transfer to the house) is committed.
C7_ClosedIffPaid ==
  \A b \in Bets : betStatus[b] = "closed" <=> ResolutionTxs(b) # {}

\* A bet has been closed by consensus and its payout committed.
C7_Witness ==
  \E b \in Bets :
    /\ betStatus[b] = "closed"
    /\ betResolution[b] \in Options
    /\ ResolutionTxs(b) # {}

Unanimous(V) == Cardinality(V) >= quorum /\ Cardinality(VotedOptions(V)) = 1

\* C8: a committed cast_vote that leaves the bet with at least Q live votes
\* all naming X closes the bet with resolution_option_id X and resolved_at.
C8_ConsensusCloses ==
  [][\A p \in Procs :
       (Commit(p) /\ proc[p].wVote /\ Unanimous(VotesOn(votes', proc[p].bet)))
       => /\ betStatus'[proc[p].bet] = "closed"
          /\ {betResolution'[proc[p].bet]} = VotedOptions(VotesOn(votes', proc[p].bet))
          /\ betResolvedAt'[proc[p].bet] # 0]_vars

\* C9: a cast_vote that closes a bet leaves at least Q live votes on it, all
\* naming the option it is resolved with.
C9_UnanimityNecessary ==
  [][\A p \in Procs :
       (Commit(p) /\ proc[p].wClose)
       => /\ Cardinality(VotesOn(votes', proc[p].bet)) >= quorum
          /\ VotedOptions(VotesOn(votes', proc[p].bet)) = {betResolution'[proc[p].bet]}]_vars

\* C10: no wager commits for a bet that is then closed, past its deadline or
\* has a committed resolution vote.
C10_MarketFreeze ==
  [][\A p \in Procs :
       (Commit(p) /\ proc[p].wWager)
       => /\ betStatus[proc[p].bet] = "open"
          /\ VotesOn(votes, proc[p].bet) = {}
          /\ (deadline[proc[p].bet] = 0 \/ deadline[proc[p].bet] > clock)]_vars

Accounts == {Wallet(u) : u \in Users \cup {House}} \cup {EscrowAcct(b) : b \in Bets}

\* C11: the commit of an admitted wager decreases the bettor's wallet by
\* amount, increases the bet's escrow by amount, adds one wagers row and
\* leaves every other balance and wager, the bet and the votes unchanged.
C11_WagerEffect ==
  [][\A p \in Procs :
       (Commit(p) /\ proc[p].wWager)
       => LET w == Wallet(proc[p].user)
              e == EscrowAcct(proc[p].bet)
          IN /\ AcctSumDelta(ledger', w) = AcctSumDelta(ledger, w) - proc[p].amount
             /\ AcctSumDelta(ledger', e) = AcctSumDelta(ledger, e) + proc[p].amount
             /\ \A a \in Accounts \ {w, e} :
                  AcctSumDelta(ledger', a) = AcctSumDelta(ledger, a)
             /\ WagerRow(p) \notin wagers
             /\ wagers' = wagers \cup {WagerRow(p)}
             /\ UNCHANGED <<betStatus, betResolution, betResolvedAt, deadline, votes>>]_vars

\* A stake is committed: its row exists and its amount is in the escrow.
C11_Witness ==
  \E w \in wagers :
    /\ Balance(EscrowAcct(w.bet)) >= w.amount
    /\ Balance(Wallet(w.user)) < MaxAmount + 1
    /\ w.amount > 0

\* C12: a resolution committed on an option nobody staked on, while the bet
\* holds stakes, records one transaction of two entries: the escrow debited
\* by escrow_total (the sum of all wagers on the bet) and the house wallet
\* credited by it; no bettor's wallet is credited.
C12_NoWinnerPolicy ==
  [][\A p \in Procs :
       LET b == proc[p].bet
           total == SumAmounts(WagersOn(wagers', b))
       IN (/\ Commit(p) /\ proc[p].wClose
           /\ WagersOnOption(wagers', b, proc[p].winOpt) = {}
           /\ total > 0)
          => \E t \in OwnTxs(p) :
               /\ OwnTxs(p) = {t}
               /\ t.entries = <<E(EscrowAcct(b), -total), E(Wallet(House), total)>>]_vars

\* C13: a committed airdrop of amount a to the N >= 1 non-house users is one
\* transaction of N+1 entries, the house debited by a*N and every non-house
\* user credited by a once, the house never credited; with N = 0 no
\* transaction is recorded.
C13_Airdrop ==
  /\ [](users = {} => ledger = {})
  /\ [][\A p \in Procs :
          (Commit(p) /\ proc[p].kind = "airdrop")
          => \E t \in OwnTxs(p) :
               LET n == Cardinality(users)
                   a == Num(proc[p].hi, proc[p].amount)
                   credits == {i \in DOMAIN t.entries : Int64Positive(Num(t.entries[i].hi, t.entries[i].delta))}
               IN /\ OwnTxs(p) = {t}
                  /\ ledger' = ledger \cup {t}
                  /\ n >= 1
                  /\ Len(t.entries) = n + 1
                  /\ \E i \in DOMAIN t.entries :
                       /\ t.entries[i].acct = Wallet(House)
                       /\ t.entries[i].hi = -(a.hi * n)
                       /\ t.entries[i].delta = -(a.lo * n)
                       /\ credits = DOMAIN t.entries \ {i}
                  /\ \A u \in users :
                       Cardinality({i \in credits : t.entries[i] = Entry(Wallet(u), a)}) = 1]_vars

\* An airdrop to the registered users has been committed.
C13_Witness ==
  \E t \in ledger :
    /\ t.note = "airdrop" /\ t.id > 0
    /\ Len(t.entries) = Cardinality(users) + 1

\* C14: a committed ledger transaction, with its entries, its hash and its
\* prev_hash, is never changed or deleted afterwards: every UPDATE or DELETE
\* on transactions or ledger_entries but the hash seal is rejected, and a
\* committed transaction is sealed.
C14_AppendOnly ==
  /\ [](\A t \in ledger : t.hash # NULL)
  /\ [][\A t \in ledger : t \in ledger']_vars

\* An UPDATE or DELETE on a committed ledger row has been rejected.
C14_Witness ==
  /\ ledger # {}
  /\ \E p \in Procs :
       proc[p].pc = "done" /\ proc[p].kind = "mutate" /\ proc[p].reply = "Append-only table"

\* C15: two transfers of one sender are never in flight together past the
\* lock of the sender's account, and a transfer commits only when the
\* sender's committed balance covers its amount: the transfers that succeed
\* never sum to more than the balance before them.
C15_TransfersSerialize ==
  /\ [](\A p \in Procs : \A q \in Procs \ {p} :
          (InFlight(p) /\ InFlight(q) /\ proc[p].kind = "transfer" /\ proc[q].kind = "transfer")
          => proc[p].user # proc[q].user)
  /\ [][\A p \in Procs :
          (Commit(p) /\ proc[p].kind = "transfer")
          => AcctSumDelta(ledger, Wallet(proc[p].user)) >= proc[p].amount]_vars

\* A transfer holds the lock of a sender who has already transferred.
C15_Witness ==
  \E p \in Procs :
    /\ proc[p].kind = "transfer" /\ proc[p].lock /\ proc[p].pc = "t_balance"
    /\ \E t \in ledger :
         t.reason = "TRANSFER" /\ t.entries[1].acct = Wallet(proc[p].user)

\* C16: a place_wager that repeats a committed place_wager (same user,
\* idempotency_key, bet, option and amount) is answered 'already submitted',
\* never with an error, whatever the balance, deadline, votes or status are
\* at the time of the retry.
C16_RetryAnswered ==
  \A p \in Procs :
    (proc[p].pc = "done" /\ proc[p].kind = "wager" /\ proc[p].retry)
    => proc[p].reply = "already_submitted"

\* C17: when two place_wager operations race to create the escrow account of
\* a bet, the one that loses the uniqueness race is not refused: no
\* place_wager ends with 'escrow error' because the escrow of its bet was
\* created by another one in the meantime.
C17_EscrowRaceAdmitsBoth ==
  \A p \in Procs :
    ~(/\ proc[p].pc = "done" /\ proc[p].kind = "wager"
      /\ proc[p].reply = "escrow error" /\ escrow[proc[p].bet])

\* C18: a unit of work that fails (an error answer at any step, a failed
\* commit-time check, a timeout) leaves the committed state as it was: the
\* accounts, transactions and entries, wagers, votes and bets are unchanged
\* by the step in which it fails, and only a successful COMMIT changes them.
Committed ==
  <<houseExists, escrow, betStatus, betResolution, betResolvedAt, ledger,
    wagers, votes>>

Fails(p) ==
  \/ proc[p].pc # "done" /\ proc'[p].pc = "done"
  \/ InFlight(p) /\ proc'[p].pc = "idle" /\ ~Commit(p)

C18_AllOrNothing ==
  [][/\ (\E p \in Procs : Fails(p)) => Committed' = Committed
     /\ Committed' # Committed => \E p \in Procs : Commit(p)]_vars

\* A place_wager that had inserted the escrow account of its bet has failed
\* at commit, and the bet has no escrow account.
C18_Witness ==
  \E p \in Procs :
    /\ proc[p].pc = "done" /\ proc[p].kind = "wager"
    /\ proc[p].reply = "commit error"
    /\ ~escrow[proc[p].bet]

\* C19: there is at most one resolution vote per (bet, moderator); when a
\* moderator who has a vote on a bet commits another cast_vote on it, the
\* existing vote takes the new option and the number of votes on the bet
\* stays the same.
OneVotePerModerator(V) ==
  \A v, w \in V : (v.bet = w.bet /\ v.user = w.user) => v = w

HasVoted(u, b) == \E v \in votes : v.bet = b /\ v.user = u

C19_OneLiveVote ==
  [][/\ OneVotePerModerator(votes')
     /\ \A p \in Procs :
          (Commit(p) /\ proc[p].kind = "vote" /\ HasVoted(proc[p].user, proc[p].bet))
          => /\ VoteRow(p) \in votes'
             /\ Cardinality(VotesOn(votes', proc[p].bet))
                  = Cardinality(VotesOn(votes, proc[p].bet))]_vars

\* A moderator whose vote for one option is committed is about to commit a
\* vote for another option of the same bet.
C19_Witness ==
  \E p \in Procs :
    /\ proc[p].pc = "commit" /\ proc[p].kind = "vote" /\ proc[p].wVote
    /\ \E v \in votes :
         v.bet = proc[p].bet /\ v.user = proc[p].user /\ v.option # proc[p].option

\* C20: a cast_vote goes on to store its vote only when its option is one of
\* the bet's, the bet's status is open and its deadline is null or has
\* passed; for an option of another bet it is answered 'invalid bet or
\* option', for a closed bet or a deadline still ahead 'bet not open', and
\* the step that rejects it leaves the votes and the bet unchanged.
VoteBegins(p) == proc[p].pc = "idle" /\ proc'[p].kind = "vote"

C20_VotePreconditions ==
  [][\A p \in Procs : VoteBegins(p) =>
       LET b == proc'[p].bet
           o == proc'[p].option
           open == betStatus[b] = "open"
           due == deadline[b] = 0 \/ deadline[b] <= clock'
       IN /\ proc'[p].pc = "v_upsert" <=> (o \in Options /\ open /\ due)
          /\ o \notin Options
               => proc'[p].pc = "done" /\ proc'[p].reply = "invalid bet or option"
          /\ (o \in Options /\ ~(open /\ due))
               => proc'[p].pc = "done" /\ proc'[p].reply = "bet not open"
          /\ proc'[p].pc = "done"
               => UNCHANGED <<votes, betStatus, betResolution, betResolvedAt,
                              deadline>>]_vars

\* A vote for an option of a closed bet has been rejected.
C20_Witness ==
  \E p \in Procs :
    /\ proc[p].pc = "done" /\ proc[p].kind = "vote"
    /\ proc[p].reply = "bet not open"
    /\ betStatus[proc[p].bet] = "closed"

\* C21: the lifecycle of a bet only moves forward: a closed bet stays closed,
\* its resolution_option_id and resolved_at keep the values they were given,
\* the votes of a closed bet are neither deleted nor changed, and a bet that
\* has a vote never goes back to having none.
C21_LifecycleForward ==
  [][\A b \in Bets :
       /\ betStatus[b] = "closed" =>
            /\ betStatus'[b] = "closed"
            /\ VotesOn(votes, b) \subseteq votes'
       /\ betResolution[b] # "null" => betResolution'[b] = betResolution[b]
       /\ betResolvedAt[b] # 0 => betResolvedAt'[b] = betResolvedAt[b]
       /\ VotesOn(votes, b) # {} => VotesOn(votes', b) # {}]_vars

\* C22: agreeing votes cast in overlapping units of work still finalize: when
\* no unit of work is in flight, no bet is open and votable with at least
\* quorum votes that all name the same option.
Quiescent == \A p \in Procs : ~InFlight(p)

C22_ConcurrentVotesFinalize ==
  \A b \in Bets :
    (/\ Quiescent
     /\ betStatus[b] = "open"
     /\ deadline[b] = 0 \/ deadline[b] <= clock
     /\ Cardinality(VotesOn(votes, b)) >= quorum)
    => Cardinality({v.option : v \in VotesOn(votes, b)}) # 1

----------------------------------------------------------------------------
(* Settlement of a bet whose stakes are given: the units of work of         *)
(* cast_vote, one at a time, on a bet that up to three bettors have staked  *)
(* on.                                                                      *)

MaxStake == 2                   \* largest stake of one bettor, in units
Bettors == {"a", "b", "c"}
BettorSeq == <<"a", "b", "c">>
AmountShifts == {0, 32}         \* stakes counted in PiedPieces or in 2^32 PiedPieces

\* What one bettor has staked: nothing, or an amount on one option.
StakeChoices ==
  {[option |-> "X", amount |-> 0]}
    \cup {[option |-> o, amount |-> n] : o \in Options, n \in 1..MaxStake}

\* The airdrop that funded the bettors, and the stake of the i-th bettor.
FundingTx ==
  [id |-> -4, reason |-> "GIFT", bet |-> "null", note |-> "airdrop",
   created_at |-> -4, entries |-> AirdropEntries(Bettors, Num(0, MaxStake)),
   prev_hash |-> NULL, hash |-> NULL]

StakeTx(i, st) ==
  [id |-> i - 4, reason |-> "BET", bet |-> "b1", note |-> "null",
   created_at |-> i - 4,
   entries |-> WagerEntries(BettorSeq[i], "b1", st[BettorSeq[i]].amount),
   prev_hash |-> NULL, hash |-> NULL]

StakedWagers(st) ==
  {[id |-> i - 4, bet |-> "b1", user |-> BettorSeq[i],
    option |-> st[BettorSeq[i]].option, amount |-> st[BettorSeq[i]].amount,
    key |-> "k1"] : i \in {j \in DOMAIN BettorSeq : st[BettorSeq[j]].amount > 0}}

\* The transactions committed one after the other, each sealed on the one
\* before it.
RECURSIVE SealChain(_)
SealChain(ts) ==
  IF ts = <<>> THEN {}
  ELSE LET n == Len(ts)
           before == SealChain(SubSeq(ts, 1, n - 1))
           prev == PrevHash(before, ts[n])
       IN before \cup {[ts[n] EXCEPT !.prev_hash = prev,
                                     !.hash = Digest(prev, Payload(ts[n]))]}

StakedLedger(st) ==
  SealChain(<<FundingTx>> \o
            SelectSeq([i \in DOMAIN BettorSeq |-> StakeTx(i, st)],
                      LAMBDA t : t.entries[1].delta # 0))

PayoutInit ==
  \E st \in [Bettors -> StakeChoices] :
    /\ users = Bettors
    /\ houseExists = TRUE
    /\ wagers = StakedWagers(st)
    /\ ledger = StakedLedger(st)
    /\ escrow = [b \in Bets |-> \E u \in Bettors : st[u].amount > 0]
    /\ betStatus = [b \in Bets |-> "open"]
    /\ betResolution = [b \in Bets |-> "null"]
    /\ betResolvedAt = [b \in Bets |-> 0]
    /\ deadline = [b \in Bets |-> 0]
    /\ votes = {}
    /\ proc = [p \in Procs |-> IdleProc]
    /\ clock = 0
    /\ quorum = 1
    /\ amountShift \in AmountShifts
    /\ LimiterIdle

PayoutNext ==
  \/ \E m \in Moderators, b \in Bets, o \in Options :
       (\A p \in Procs : Free(p)) /\ VoteEnsureBetOpen(m, b, o)
  \/ \E p \in Procs :
       \/ VoteUpsert(p)
       \/ VoteConsensus(p)
       \/ VoteWinningOption(p)
       \/ FinalizeUpdateBet(p)
       \/ FinalizeEscrowTotal(p)
       \/ FinalizeWinTotal(p)
       \/ FinalizeNoWinners(p)
       \/ FinalizeWinners(p)
       \/ FireDeferredTriggers(p)
       \/ Commit(p)
       \/ Respond(p)

SpecPayout == PayoutInit /\ [][PayoutNext]_vars

\* What finalizeBetPayout of unit of work p credits, the winners' rows taken
\* in the given order.
StakeTable(p) ==
  [x \in Winners(VisibleWagers(p), proc[p].bet, proc[p].winOpt) \cup {"total"} |->
     IF x = "total" THEN proc[p].winTotal
     ELSE Stake(VisibleWagers(p), proc[p].bet, proc[p].winOpt, x)]

PayoutInOrder(p, order) ==
  PayoutEntries(order, StakeTable(p), 1, 0, proc[p].escrowTotal, proc[p].bet)

CreditedTo(es, u) == SeqSumDelta(OnAcct(es, Wallet(u)))

\* C23: the payout of every winner is a function of the wagers alone: the
\* payout transaction credits each winner what it would credit with the
\* winners' rows processed in any other order (stakes small enough for the
\* proportional share not to overflow).
C23_DeterministicSplit ==
  [][\A p \in Procs : (amountShift = 0 /\ FinalizeWinners(p)) =>
       \A order \in Orders(DOMAIN StakeTable(p) \ {"total"}) :
         \A u \in DOMAIN StakeTable(p) \ {"total"} :
           CreditedTo(proc'[p].txs[1].entries, u)
             = CreditedTo(PayoutInOrder(p, order), u)]_vars

\* C24: the cast_vote that establishes quorum and unanimity on an open,
\* votable bet is never rejected by its finalization, whatever was staked:
\* no cast_vote ends in the error of finalizeBetPayout.
C24_EveryBetResolvable ==
  \A p \in Procs :
    ~(proc[p].pc = "done" /\ proc[p].kind = "vote" /\ proc[p].reply = "db error")

\* C25: an operation that needs the house wallet and finds no house creates
\* it, and two such operations running together both succeed: no gift or
\* airdrop is refused because the house was created by another one meanwhile.
C25_HouseRaceSafe ==
  \A p \in Procs :
    ~(/\ proc[p].pc = "done" /\ proc[p].kind \in {"gift", "airdrop"}
      /\ proc[p].reply = "house account" /\ houseExists)

\* C26: in every committed state the escrow account of an open bet holds
\* exactly the sum of the wagers on the bet, a bet without escrow account
\* has no wagers, and the user-to-escrow transactions and the wagers rows
\* correspond one to one.
StakeTxs(b) == {t \in ledger : IsStakeTx(t) /\ t.bet = b}

C26_EscrowMatchesWagers ==
  \A b \in Bets :
    /\ betStatus[b] = "open" =>
         /\ Balance(EscrowAcct(b)) = SumAmounts(WagersOn(wagers, b))
         /\ AcctSumHi(ledger, EscrowAcct(b)) = 0
    /\ ~escrow[b] => WagersOn(wagers, b) = {}
    /\ \A t \in StakeTxs(b) :
         \E w \in WagersOn(wagers, b) :
           /\ w.id = t.id
           /\ t.entries = WagerEntries(w.user, b, w.amount)
    /\ Cardinality(StakeTxs(b)) = Cardinality(WagersOn(wagers, b))

\* Two wagers are committed on an open bet.
C26_Witness ==
  \E b \in Bets :
    /\ betStatus[b] = "open" /\ escrow[b]
    /\ Cardinality(WagersOn(wagers, b)) = 2
    /\ Balance(EscrowAcct(b)) = 2

\* The hash the trigger computes for a transactions row with given entries.
SealOf(t) == Digest(t.prev_hash, Payload(t))

\* The row with its entries inserted in another order, and with one entry's
\* delta or account changed.
Reordered(t) ==
  {[t EXCEPT !.entries = [i \in DOMAIN t.entries |-> t.entries[s[i]]]] :
     s \in Orders(DOMAIN t.entries)}

Tampered(t) ==
  UNION {{[t EXCEPT !.entries[i].delta = @ + d] : d \in {-1, 1}}
           \cup {[t EXCEPT !.entries[i].acct = a] : a \in Accounts \ {t.entries[i].acct}} :
         i \in DOMAIN t.entries}

C28_NoFundsStranded ==
  \A b \in Bets : betStatus[b] = "closed" => Balance(EscrowAcct(b)) = 0

\* C29: when a bet is finalized with win_total > 0, every user with a stake
\* s > 0 on the winning option is credited a share with s <= share <=
\* escrow_total, the stakes being positive and their sum within int64.
C29_WinnerNeverLoses ==
  [][\A p \in Procs : FinalizeWinners(p) =>
       \A u \in DOMAIN StakeTable(p) \ {"total"} :
         LET share == CreditedTo(proc'[p].txs[1].entries, u)
         IN StakeTable(p)[u] <= share /\ share <= proc[p].escrowTotal]_vars

\* C30: the login rate limiter keeps its count per key and window, whatever
\* the interleaving of the calls: a bucket never counts more than limit
\* admitted calls, each admitted call in a running window adds one, a rejected
\* call leaves the bucket (and so the end of its window) as it was, a call
\* whose now is after the bucket's expiry is admitted and opens a window of
\* its own with count 1, and every call gets the answer it would have got had
\* no expired bucket ever been deleted.
C30_LimiterWindows ==
  [][\A c \in Callers : AllowLocked(c) =>
       LET key == calls[c].key
           now == calls[c].now
           entry == Lookup(buckets, key)
           ok == calls'[c].ok
       IN /\ Lookup(buckets', key).count <= limit
          /\ (ok /\ ~After(now, entry.expires)) =>
               Lookup(buckets', key) = [entry EXCEPT !.count = @ + 1]
          /\ ~ok => Lookup(buckets', key) = entry
          /\ After(now, entry.expires) =>
               ok /\ Lookup(buckets', key) = [count |-> 1, expires |-> now + window]
          /\ ok = Allowed(unswept, key, now)]_vars

====
